---- MODULE Spec2Model ----
(***************************************************************************)
(* FinScraps: the ANBIMA business-day calendar (BRCal, src/src/utils.py)   *)
(* and the scrape-validate-merge-persist workflow of AnbimaIRTSManager     *)
(* (src/src/managers/Managers.py) over the records AnbimaIRTSScraper       *)
(* (src/src/scrapers/Scrapers.py) returns.                                 *)
(*                                                                         *)
(* A pd.Timestamp is an integer number of ticks: day * TicksPerDay + tick  *)
(* of the day.  Day 0 is a Monday.  A calendar date is a timestamp whose   *)
(* tick of the day is 0 (midnight).                                        *)
(***************************************************************************)
EXTENDS Integers, Sequences, FiniteSets, TLC

\* ------------------------------------------------------------------ bounds
TicksPerDay == 2       \* resolution of the time-of-day component
MaxCalDay == 9         \* calendar queries range over days 0..MaxCalDay
MaxHolidays == 3       \* size of the holiday sets of the calendar queries
FirstDay == 11         \* the earliest initial value of today (a day number)
MaxDay == 12           \* today never goes past this day number
MaxCalls == 2          \* scrape_and_update invocations per behaviour
MaxEntries == 2        \* PARAMETRO entries in one response of the source
MaxInitRows == 2       \* rows of the feather file found at start

\* ----------------------------------------------------------- pd.Timestamp
\* pd.NaT, the date of a row that was stored without a date column
NaT == -1000

\* pd.NaT sorts after every timestamp (sort_values, na_position = "last")
NaTLast == 1000000

\* float NaN / None, the value of an empty numeric field
NaN == -1

Ts(day, tick) == day * TicksPerDay + tick

\* Timestamp.normalize(): strip the time of day
normalize(t) == t - (t % TicksPerDay)

\* Timestamp.weekday(): Monday = 0 ... Sunday = 6
weekday(t) == (t \div TicksPerDay) % 7

\* ------------------------------------------------------------------ BRCal
\* a variant that looks the timestamp up without stripping its time of day
is_business_day_rawLookup(date, hol) == (weekday(date) < 5) /\ (date \notin hol)

\* BRCal.is_business_day
is_business_day(date, hol) ==
    LET d == normalize(date)
    IN  (weekday(d) < 5) /\ (d \notin hol)

\* CustomBusinessDay(weekmask = "Mon Tue Wed Thu Fri", holidays = hol):
\* whether a midnight timestamp is on the offset
on_offset(t, hol) == (weekday(t) < 5) /\ (t \notin hol)

RECURSIVE rollforward(_, _)
\* first day on the offset at or after t
rollforward(t, hol) ==
    IF on_offset(t, hol) THEN t ELSE rollforward(t + TicksPerDay, hol)

RECURSIVE rollback(_, _)
\* last day on the offset at or before t
rollback(t, hol) ==
    IF on_offset(t, hol) THEN t ELSE rollback(t - TicksPerDay, hol)

\* a variant that rolls a date off the offset backward before stepping
cbd_sub_rollsBackward(t, hol) == rollback(rollback(t, hol) - TicksPerDay, hol)

\* date - CustomBusinessDay: n = -1, so the date is rolled forward onto the
\* offset and then moved one business day back
cbd_sub(t, hol) == rollback(rollforward(t, hol) - TicksPerDay, hol)

\* date + CustomBusinessDay: n = 1, the date is rolled backward onto the
\* offset and then moved one business day forward
cbd_add(t, hol) == rollforward(rollback(t, hol) + TicksPerDay, hol)

RECURSIVE generate_range(_, _, _)
\* the loop of pandas' date_range: cur, cur + offset, ... while cur <= end
generate_range(cur, end, hol) ==
    IF cur > end THEN <<>>
    ELSE IF cur = end THEN <<cur>>
    ELSE <<cur>> \o generate_range(cbd_add(cur, hol), end, hol)

\* a variant that does not move the start onto the offset
day_range_rawStart(start_date, end_date, hol) ==
    generate_range(normalize(start_date), normalize(end_date), hol)

\* BRCal.day_range
day_range(start_date, end_date, hol) ==
    LET s == normalize(start_date)
        e == normalize(end_date)
    IN  generate_range(rollforward(s, hol), e, hol)

\* BRCal.previous_business_day
previous_business_day(date, hol) == cbd_sub(normalize(date), hol)

\* the attributes a BRCal instance has: what __init__ sets and the class defines
BRCalAttributes ==
    {"url", "_holidays", "_custom_bday", "now", "today", "_fetch_holidays",
     "day_range", "is_business_day", "day_count", "previous_business_day"}

\* what a calendar query gives back: a value, or the error it raised
CalValue(v) == [err |-> "none", value |-> v]
CalError(e) == [err |-> e, value |-> 0]

\* BRCal.day_count: bdays = self.bday_range(start_date, end_date);
\* max(0, len(bdays) - 1).  Looking up an attribute the instance does not
\* have raises AttributeError.
day_count(start_date, end_date, hol) ==
    IF "bday_range" \notin BRCalAttributes THEN CalError("AttributeError")
    ELSE LET n == Len(day_range(start_date, end_date, hol)) - 1
         IN  CalValue(IF n > 0 THEN n ELSE 0)


\* what the download of the holiday file gives: the dates of its Data column
\* (NaT for an empty cell), a failed request, or content pandas cannot read
HolidaysValue(h) == [err |-> "none", value |-> h]
HolidaysError(e) == [err |-> e, value |-> {}]

\* BRCal._fetch_holidays: a RequestException is reported and gives the empty
\* set; read_excel(...).dropna()["Data"] runs outside the try block
_fetch_holidays(response) ==
    IF response.kind = "RequestException" THEN HolidaysValue({})
    ELSE IF response.kind = "ParseError" THEN HolidaysError("ParseError")
    ELSE HolidaysValue(response.content \ {NaT})

\* ------------------------------------------------------- AnbimaIRTSScraper
\* a numeric attribute of a PARAMETRO entry is a string: <<>> is the empty
\* string, <<i, f>> is the text "i,f" (integer part, comma, one decimal)
\* parse_params.type_mapping
type_mapping == [PREFIXADOS |-> "pre", IPCA |-> "ipca"]

\* type_mapping.get(original_type, original_type)
renamed_type(g) == IF g \in DOMAIN type_mapping THEN type_mapping[g] ELSE g

\* parse_params.convert: float(value.replace(",", ".")) if value else None;
\* the float is kept in tenths
convert(value) == IF value = <<>> THEN NaN ELSE value[1] * 10 + value[2]

\* parse_params: one record per PARAMETRO entry, all with the requested date
\* (of the six numeric fields b1..b4, l1, l2, all converted alike, b1 is kept)
parse_params(xml_content, date) ==
    [i \in 1..Len(xml_content) |->
        [date |-> date,
         type |-> renamed_type(xml_content[i].Grupo),
         b1   |-> convert(xml_content[i].B1)]]

\* download_xml: max_retries
max_retries == 5

\* a variant that waits after every failed attempt
sleeps_before_retry_always(attempt) == attempt < max_retries

\* download_xml, except branch: after a failed request of loop index attempt
\* the loop sleeps and goes on when attempt < max_retries - 1, else it raises
sleeps_before_retry(attempt) == attempt < max_retries - 1

\* ------------------------------------------------------------ pd.DataFrame
\* a frame is its set of column names and its rows in index order; a row
\* holds NaT / NaN in a column its frame does not have
AllColumns == {"date", "type", "b1"}

\* pd.DataFrame() and pd.DataFrame([]): no columns, no rows
EmptyFrame == [columns |-> {}, rows |-> <<>>]

\* pd.DataFrame(parametros)
DataFrame(records) ==
    IF Len(records) = 0 THEN EmptyFrame
    ELSE [columns |-> AllColumns, rows |-> records]

\* DataFrame.empty: some axis has length 0
empty(df) == (Len(df.rows) = 0) \/ (df.columns = {})

\* a variant that keeps only the new frame
concat_newOnly(a, b) == [columns |-> b.columns, rows |-> b.rows]

\* pd.concat([a, b], ignore_index = True)
concat(a, b) == [columns |-> a.columns \cup b.columns, rows |-> a.rows \o b.rows]

RECURSIVE drop_dup_rows(_, _)
drop_dup_rows(rows, seen) ==
    IF rows = <<>> THEN <<>>
    ELSE IF Head(rows) \in seen THEN drop_dup_rows(Tail(rows), seen)
    ELSE <<Head(rows)>> \o drop_dup_rows(Tail(rows), seen \cup {Head(rows)})

\* DataFrame.drop_duplicates(): the first of each group of equal rows stays
drop_duplicates(df) == [df EXCEPT !.rows = drop_dup_rows(df.rows, {})]

\* the sort key of a row: NaT goes last
date_key(row) == IF row.date = NaT THEN NaTLast ELSE row.date

RECURSIVE insert_row(_, _)
insert_row(sorted, row) ==
    IF sorted = <<>> THEN <<row>>
    ELSE IF date_key(Head(sorted)) <= date_key(row)
         THEN <<Head(sorted)>> \o insert_row(Tail(sorted), row)
         ELSE <<row>> \o sorted

RECURSIVE sort_rows(_)
sort_rows(rows) ==
    IF rows = <<>> THEN <<>>
    ELSE insert_row(sort_rows(SubSeq(rows, 1, Len(rows) - 1)), rows[Len(rows)])

\* a variant that leaves the rows in concatenation order
sort_values_unsorted(df) == df

\* DataFrame.sort_values("date", ascending = True) followed by
\* reset_index(drop = True); numpy's default sort is an insertion sort on
\* arrays this short, so rows of equal date keep their order
sort_values(df) == [df EXCEPT !.rows = sort_rows(df.rows)]

\* sort_values("date") raises KeyError when the frame has no such column
sort_raises(df) == "date" \notin df.columns

\* ------------------------------------------------------- AnbimaIRTSManager
\* the threshold of the staleness check
StaleLimit == 5

\* a variant without the check for a future date
_validate_date_noFutureCheck(date, now, hol) ==
    IF ~is_business_day(date, hol) THEN FALSE
    ELSE IF Len(day_range(date, now, hol)) > StaleLimit THEN FALSE
    ELSE TRUE

\* AnbimaIRTSManager._validate_date, with calendar.today = now
_validate_date(date, now, hol) ==
    IF ~is_business_day(date, hol) THEN FALSE
    ELSE IF date > now THEN FALSE
    ELSE IF Len(day_range(date, now, hol)) > StaleLimit THEN FALSE
    ELSE TRUE

\* a variant that never finds the date
date_present_never(df, date) == FALSE

\* date in existing_df["date"].unique()
date_present(df, date) == \E i \in 1..Len(df.rows) : df.rows[i].date = date

\* how an invocation ends
NoOutcome == [kind |-> "none", val |-> FALSE, err |-> "none"]
Returns(b) == [kind |-> "return", val |-> b, err |-> "none"]
Raises(e) == [kind |-> "raise", val |-> FALSE, err |-> e]

\* a variant that turns the error into a skip
scrape_failed_swallowed(e) == Returns(FALSE)

\* except Exception as e: self.logger.error(...); raise
scrape_failed(e) == Raises(e)

\* pd.concat, drop_duplicates, before the sort
combined_df(existing_df, new_data) == drop_duplicates(concat(existing_df, new_data))

\* a variant that writes the file before sorting
store_after_merge_writeFirst(st, existing_df, new_data) ==
    LET c == combined_df(existing_df, new_data)
    IN  IF sort_raises(c) THEN [exists |-> TRUE, df |-> c]
        ELSE [exists |-> TRUE, df |-> sort_values(c)]

\* the feather file after the merge: sort_values, reset_index, to_feather;
\* nothing is written when sort_values raises
store_after_merge(st, existing_df, new_data) ==
    LET c == combined_df(existing_df, new_data)
    IN  IF sort_raises(c) THEN st
        ELSE [exists |-> TRUE, df |-> sort_values(c)]

\* ------------------------------------------------------------------ state
VARIABLES
    holidays,   \* BRCal._holidays: a set of midnight timestamps
    today,      \* BRCal.today: now, normalized to midnight
    store,      \* the feather file: whether it exists and the frame in it
    inv,        \* per invocation of scrape_and_update: position and locals
    calls,      \* invocations started so far
    calA,       \* first argument of the calendar query
    calB,       \* second argument of the calendar query
    calOut,     \* what the last calendar query returned
    ep          \* auto_scrape, the entry point: position, its own calendar, log

vars == <<holidays, today, store, inv, calls, calA, calB, calOut, ep>>

\* the invocations: the program runs one at a time (Sequential); a second
\* process started on the same data directory gives a second invocation
Procs == {1, 2}
Sequential == {1}

NoOut == [op |-> "none", prev |-> NaT, range |-> <<>>,
          count |-> CalValue(0), isbd |-> FALSE]

\* the locals of an invocation that has not started
Idle ==
    [pc |-> "idle", date |-> NaT, valid |-> FALSE,
     existing_df |-> EmptyFrame, new_data |-> EmptyFrame,
     before |-> [exists |-> FALSE, df |-> EmptyFrame],
     fetchErr |-> "none", outcome |-> NoOutcome,
     nread |-> 0, nfetch |-> 0, nwrite |-> 0,
     attempt |-> 0, nreq |-> 0, nsleep |-> 0, trace |-> <<>>]

NoFile == [exists |-> FALSE, df |-> EmptyFrame]

\* the entry point before its first statement
EpStart ==
    [pc |-> "start", cal |-> {}, date |-> NaT, log |-> {}, err |-> "none",
     cons |-> <<>>]

\* ---------------------------------------------------- inputs of the model
\* dates a caller may ask for: every day from day 0 to the first business
\* day after MaxDay at midnight (as auto_scrape passes them), and the days
\* around today with a time of day
CallDates ==
    {Ts(d, 0) : d \in 0..(MaxDay + 2)}
    \cup {Ts(d, TicksPerDay - 1) : d \in (FirstDay - 1)..(MaxDay + 2)}

\* holiday sets of the manager's calendar
HolidayCandidates == {Ts(7, 0), Ts(9, 0)}

\* rows found in the feather file at start
InitRows ==
    {[date |-> Ts(8, 0), type |-> "pre", b1 |-> 15],
     [date |-> Ts(10, 0), type |-> "pre", b1 |-> 15]}

\* the same rows as stored by a file without the date column
InitRowsNoDate == {[date |-> NaT, type |-> "pre", b1 |-> 15]}

SeqsUpTo(S, n) == UNION {[1..k -> S] : k \in 0..n}

InitStores ==
    {NoFile}
    \cup {[exists |-> TRUE, df |-> [columns |-> AllColumns, rows |-> r]] :
            r \in SeqsUpTo(InitRows, MaxInitRows)}
    \cup {[exists |-> TRUE, df |-> [columns |-> AllColumns \ {"date"}, rows |-> r]] :
            r \in SeqsUpTo(InitRowsNoDate, MaxInitRows) \ {<<>>}}

\* the i-th PARAMETRO entry of the source's document: PREFIXADOS and IPCA in
\* turn, the IPCA fields left empty
Entry(i) ==
    IF i % 2 = 1 THEN [Grupo |-> "PREFIXADOS", B1 |-> <<1, 5>>]
    ELSE [Grupo |-> "IPCA", B1 |-> <<>>]

\* the documents the source may answer with: zero to MaxEntries entries
Responses == {[i \in 1..k |-> Entry(i)] : k \in 0..MaxEntries}

\* what scraper.scrape may raise: the request error of download_xml after
\* its retries, the parse error of ET.fromstring
ScrapeErrors == {"RequestException", "ParseError"}

\* ------------------------------------------------------------------- Init
Init ==
    /\ ep = EpStart
    /\ holidays \in SUBSET HolidayCandidates
    /\ today \in {Ts(d, 0) : d \in FirstDay..MaxDay}
    /\ store \in InitStores
    /\ inv = [p \in Procs |-> Idle]
    /\ calls = 0
    /\ calA = NaT
    /\ calB = NaT
    /\ calOut = NoOut

\* ------------------------------------------- scrape_and_update, step by step
\* a variant that goes on after a rejected date
Call_noSkip(p, d) ==
    /\ inv[p].pc = "idle"
    /\ calls < MaxCalls
    /\ calls' = calls + 1
    /\ inv' = [inv EXCEPT ![p] =
                [Idle EXCEPT !.date = d, !.before = store,
                             !.valid = _validate_date(d, today, holidays),
                             !.trace = <<"validate">>,
                             !.pc = "load"]]
    /\ UNCHANGED <<holidays, today, store, calA, calB, calOut, ep>>

\* lines 54-55: the call and _validate_date
Call(p, d) ==
    /\ inv[p].pc = "idle"
    /\ calls < MaxCalls
    /\ calls' = calls + 1
    /\ LET ok == _validate_date(d, today, holidays)
       IN  inv' = [inv EXCEPT ![p] =
                [Idle EXCEPT !.date = d, !.valid = ok, !.before = store,
                             !.trace = <<"validate">>,
                             !.pc = IF ok THEN "load" ELSE "done",
                             !.outcome = IF ok THEN NoOutcome ELSE Returns(FALSE)]]
    /\ UNCHANGED <<holidays, today, store, calA, calB, calOut, ep>>

\* lines 57-66: read the feather file, or start from an empty frame
Load(p) ==
    /\ inv[p].pc = "load"
    /\ inv' = [inv EXCEPT ![p].existing_df =
                              IF store.exists THEN store.df ELSE EmptyFrame,
                          ![p].nread = IF store.exists THEN @ + 1 ELSE @,
                          ![p].trace = Append(@, "load"),
                          ![p].pc = "check"]
    /\ UNCHANGED <<holidays, today, store, calls, calA, calB, calOut, ep>>

\* lines 68-80: skip when the date is already stored
DupCheck(p) ==
    /\ inv[p].pc = "check"
    /\ LET df == inv[p].existing_df
       IN  IF ~empty(df) /\ "date" \in df.columns /\ date_present(df, inv[p].date)
           THEN inv' = [inv EXCEPT ![p].outcome = Returns(FALSE),
                                   ![p].trace = Append(@, "check"),
                                   ![p].pc = "done"]
           ELSE inv' = [inv EXCEPT ![p].trace = Append(@, "check"),
                                   ![p].pc = "fetch"]
    /\ UNCHANGED <<holidays, today, store, calls, calA, calB, calOut, ep>>

\* scraper.scrape is entered with the first request of download_xml
scrape_entered(r) ==
    [r EXCEPT !.nfetch = IF r.nreq = 0 THEN @ + 1 ELSE @,
              !.trace = IF r.nreq = 0 THEN Append(@, "fetch") ELSE @,
              !.nreq = @ + 1]

\* download_xml, lines 36-45: the request of this attempt fails; the loop
\* sleeps and tries again, or raises the error out of scrape on the last one
RequestFails(p) ==
    /\ inv[p].pc = "fetch"
    /\ LET r == scrape_entered(inv[p])
       IN  IF sleeps_before_retry(r.attempt)
           THEN inv' = [inv EXCEPT ![p] = [r EXCEPT !.nsleep = @ + 1,
                                                    !.attempt = @ + 1]]
           ELSE inv' = [inv EXCEPT ![p] =
                          [r EXCEPT !.fetchErr = "RequestException",
                                    !.outcome = scrape_failed("RequestException"),
                                    !.pc = "done"]]
    /\ UNCHANGED <<holidays, today, store, calls, calA, calB, calOut, ep>>

\* lines 82-92: the request of this attempt succeeds and scraper.scrape
\* returns the frame parsed from its content
FetchReturns(p) ==
    /\ inv[p].pc = "fetch"
    /\ \E xml_content \in Responses :
         inv' = [inv EXCEPT ![p] =
                   [scrape_entered(inv[p]) EXCEPT
                        !.new_data = DataFrame(parse_params(xml_content, inv[p].date)),
                        !.pc = "merge"]]
    /\ UNCHANGED <<holidays, today, store, calls, calA, calB, calOut, ep>>

\* lines 82-88: the request of this attempt succeeds and parsing its content
\* raises, out of scraper.scrape
FetchRaises(p) ==
    /\ inv[p].pc = "fetch"
    /\ inv' = [inv EXCEPT ![p] =
                 [scrape_entered(inv[p]) EXCEPT
                      !.fetchErr = "ParseError",
                      !.outcome = scrape_failed("ParseError"),
                      !.pc = "done"]]
    /\ UNCHANGED <<holidays, today, store, calls, calA, calB, calOut, ep>>

\* a variant that merges into the file as it is when the write happens
MergeAndPersist_rereads(p) ==
    /\ inv[p].pc = "merge"
    /\ LET now_df == IF store.exists THEN store.df ELSE EmptyFrame
           c == combined_df(now_df, inv[p].new_data)
       IN  /\ store' = store_after_merge(store, now_df, inv[p].new_data)
           /\ IF sort_raises(c)
              THEN inv' = [inv EXCEPT ![p].outcome = Raises("KeyError"),
                                      ![p].pc = "done"]
              ELSE inv' = [inv EXCEPT ![p].outcome = Returns(TRUE),
                                      ![p].nwrite = @ + 1,
                                      ![p].trace = Append(@, "write"),
                                      ![p].pc = "done"]
    /\ UNCHANGED <<holidays, today, calls, calA, calB, calOut, ep>>

\* lines 94-101: concat, drop_duplicates, sort_values, reset_index, to_feather
MergeAndPersist(p) ==
    /\ inv[p].pc = "merge"
    /\ LET c == combined_df(inv[p].existing_df, inv[p].new_data)
       IN  /\ store' = store_after_merge(store, inv[p].existing_df, inv[p].new_data)
           /\ IF sort_raises(c)
              THEN inv' = [inv EXCEPT ![p].outcome = Raises("KeyError"),
                                      ![p].pc = "done"]
              ELSE inv' = [inv EXCEPT ![p].outcome = Returns(TRUE),
                                      ![p].nwrite = @ + 1,
                                      ![p].trace = Append(@, "write"),
                                      ![p].pc = "done"]
    /\ UNCHANGED <<holidays, today, calls, calA, calB, calOut, ep>>

\* the caller has the result; the next invocation may start
Finish(p) ==
    /\ inv[p].pc = "done"
    /\ inv' = [inv EXCEPT ![p] = Idle]
    /\ UNCHANGED <<holidays, today, store, calls, calA, calB, calOut, ep>>

\* midnight passes between two invocations
NextDay ==
    /\ \A p \in Procs : inv[p].pc = "idle"
    /\ today < Ts(MaxDay, 0)
    /\ today' = today + TicksPerDay
    /\ UNCHANGED <<holidays, store, inv, calls, calA, calB, calOut, ep>>

Next ==
    \/ \E p \in Sequential : \E d \in CallDates : Call(p, d)
    \/ \E p \in Sequential : Load(p)
    \/ \E p \in Sequential : DupCheck(p)
    \/ \E p \in Sequential : RequestFails(p)
    \/ \E p \in Sequential : FetchReturns(p)
    \/ \E p \in Sequential : FetchRaises(p)
    \/ \E p \in Sequential : MergeAndPersist(p)
    \/ \E p \in Sequential : Finish(p)
    \/ NextDay

Spec == Init /\ [][Next]_vars

\* ------------------------------------------------ auto_scrape, one run
\* what the holiday source may answer
HolidayFetches ==
    {[kind |-> "ok", content |-> c] : c \in SUBSET (HolidayCandidates \cup {NaT})}
    \cup {[kind |-> "RequestException", content |-> {}],
          [kind |-> "ParseError", content |-> {}]}

\* BRCal.__init__ on the result of _fetch_holidays: the record of one
\* construction, built or not
constructed(response) ==
    LET r == _fetch_holidays(response)
    IN  [fetch |-> response.kind, built |-> (r.err = "none"), hol |-> r.value]

\* bool(br_business_day): a Timestamp is always true
Timestamp_bool(t) == TRUE

MainInit ==
    /\ ep = EpStart
    /\ holidays = {}
    /\ today \in {Ts(d, 0) : d \in (FirstDay - 1)..MaxDay}
    /\ store \in InitStores
    /\ inv = [p \in Procs |-> Idle]
    /\ calls = 0
    /\ calA = NaT
    /\ calB = NaT
    /\ calOut = NoOut

\* line 7: brcal = BRCal()
EpConstructCalendar ==
    /\ ep.pc = "start"
    /\ \E response \in HolidayFetches :
         LET c == constructed(response)
         IN  ep' = [ep EXCEPT !.cons = Append(@, c),
                              !.cal = c.hol,
                              !.err = IF c.built THEN @ ELSE "ParseError",
                              !.pc = IF c.built THEN "prev" ELSE "crashed"]
    /\ UNCHANGED <<holidays, today, store, inv, calls, calA, calB, calOut>>

\* lines 8-10, 14-15: br_business_day and the test of it
EpPreviousBusinessDay ==
    /\ ep.pc = "prev"
    /\ LET br_business_day == previous_business_day(today, ep.cal)
       IN  IF Timestamp_bool(br_business_day)
           THEN ep' = [ep EXCEPT !.date = br_business_day, !.pc = "manager"]
           ELSE ep' = [ep EXCEPT !.date = br_business_day,
                                 !.log = @ \cup {"Not a BR business day"},
                                 !.pc = "exit"]
    /\ UNCHANGED <<holidays, today, store, inv, calls, calA, calB, calOut>>

\* line 11: AIRTSM = AnbimaIRTSManager(), which builds its own BRCal
EpConstructManager ==
    /\ ep.pc = "manager"
    /\ \E response \in HolidayFetches :
         LET c == constructed(response)
         IN  /\ ep' = [ep EXCEPT !.cons = Append(@, c),
                                 !.err = IF c.built THEN @ ELSE "ParseError",
                                 !.pc = IF c.built THEN "scrape" ELSE "crashed"]
             /\ holidays' = c.hol
    /\ UNCHANGED <<today, store, inv, calls, calA, calB, calOut>>

\* line 12: AIRTSM.scrape_and_update(br_business_day) is called
EpScrape ==
    /\ ep.pc = "scrape"
    /\ calls = 0
    /\ Call(1, ep.date)

\* lines 12-13: the call returns and the success message is logged, or the
\* call raises and the process ends with the error
EpLog ==
    /\ ep.pc = "scrape"
    /\ inv[1].pc = "done"
    /\ IF inv[1].outcome.kind = "return"
       THEN ep' = [ep EXCEPT !.log = @ \cup {"successfully scraped and updated"},
                             !.pc = "exit"]
       ELSE ep' = [ep EXCEPT !.err = inv[1].outcome.err, !.pc = "crashed"]
    /\ UNCHANGED <<holidays, today, store, inv, calls, calA, calB, calOut>>

MainNext ==
    \/ EpConstructCalendar
    \/ EpPreviousBusinessDay
    \/ EpConstructManager
    \/ EpScrape
    \/ Load(1)
    \/ DupCheck(1)
    \/ RequestFails(1)
    \/ FetchReturns(1)
    \/ FetchRaises(1)
    \/ MergeAndPersist(1)
    \/ EpLog

SpecMain == MainInit /\ [][MainNext]_vars

\* ------------------------------- two processes on the same data directory
\* nothing in scrape_and_update locks the feather file: the steps of two
\* invocations interleave freely
ConcInit ==
    /\ ep = EpStart
    /\ holidays = {}
    /\ today = Ts(FirstDay, 0)
    /\ store \in {NoFile,
                  [exists |-> TRUE,
                   df |-> [columns |-> AllColumns,
                           rows |-> <<[date |-> Ts(8, 0), type |-> "pre", b1 |-> 15]>>]]}
    /\ inv = [p \in Procs |-> Idle]
    /\ calls = 0
    /\ calA = NaT
    /\ calB = NaT
    /\ calOut = NoOut

ConcNext ==
    \/ \E p \in Procs : \E d \in CallDates : Call(p, d)
    \/ \E p \in Procs : Load(p)
    \/ \E p \in Procs : DupCheck(p)
    \/ \E p \in Procs : RequestFails(p)
    \/ \E p \in Procs : FetchReturns(p)
    \/ \E p \in Procs : FetchRaises(p)
    \/ \E p \in Procs : MergeAndPersist(p)

SpecConc == ConcInit /\ [][ConcNext]_vars

\* ------------------------------------------------- calendar queries (BRCal)
CalDays == {Ts(d, 0) : d \in 0..MaxCalDay}
CalStamps == {Ts(d, k) : d \in 0..MaxCalDay, k \in {0, TicksPerDay - 1}}
CalHolidaySets == {h \in SUBSET CalDays : Cardinality(h) <= MaxHolidays}

CalInit ==
    /\ ep = EpStart
    /\ holidays \in CalHolidaySets
    /\ calA \in CalStamps
    /\ calB \in CalStamps
    /\ calOut = NoOut
    /\ today = Ts(0, 0)
    /\ store = NoFile
    /\ inv = [p \in Procs |-> Idle]
    /\ calls = 0

CallPreviousBusinessDay ==
    /\ calOut.op # "prev"
    /\ calOut' = [NoOut EXCEPT !.op = "prev",
                                !.prev = previous_business_day(calA, holidays)]
    /\ UNCHANGED <<holidays, today, store, inv, calls, calA, calB, ep>>

CallDayRange ==
    /\ calOut.op # "range"
    /\ calOut' = [NoOut EXCEPT !.op = "range",
                                !.range = day_range(calA, calB, holidays)]
    /\ UNCHANGED <<holidays, today, store, inv, calls, calA, calB, ep>>

CallDayCount ==
    /\ calOut.op # "count"
    /\ calOut' = [NoOut EXCEPT !.op = "count",
                                !.count = day_count(calA, calB, holidays)]
    /\ UNCHANGED <<holidays, today, store, inv, calls, calA, calB, ep>>

CallIsBusinessDay ==
    /\ calOut.op # "isbd"
    /\ calOut' = [NoOut EXCEPT !.op = "isbd",
                                !.isbd = is_business_day(calA, holidays)]
    /\ UNCHANGED <<holidays, today, store, inv, calls, calA, calB, ep>>

CalNext ==
    \/ CallPreviousBusinessDay
    \/ CallDayRange
    \/ CallDayCount
    \/ CallIsBusinessDay

SpecCal == CalInit /\ [][CalNext]_vars

\* ================================================================ claims
Midnights(lo, hi) == {t \in lo..hi : t % TicksPerDay = 0}

RowSet(rows) == {rows[i] : i \in 1..Len(rows)}

NoDupRows(rows) == \A i, j \in 1..Len(rows) : rows[i] = rows[j] => i = j

AscendingByDate(rows) ==
    \A i, j \in 1..Len(rows) :
        i < j => (IF rows[i].date = NaT THEN NaTLast ELSE rows[i].date)
                 <= (IF rows[j].date = NaT THEN NaTLast ELSE rows[j].date)

HasDate(rows, d) == \E i \in 1..Len(rows) : rows[i].date = d

\* business-day steps from the date of invocation p to today
StepsToToday(p) == Len(day_range(inv[p].date, today, holidays)) - 1

\* C1: a business day d <= today with at most 5 business-day steps from d to
\* today is accepted by _validate_date.
C1_AcceptsWithinFiveSteps ==
    \A p \in Procs :
        (/\ inv[p].pc # "idle"
         /\ is_business_day(inv[p].date, holidays)
         /\ inv[p].date <= today
         /\ StepsToToday(p) <= 5)
        => inv[p].valid

\* C2: _validate_date never accepts a date that is not a business day, a date
\* later than today, or a date 6 or more business-day steps before today;
\* scrape_and_update then returns false.
C2_RejectsInvalidDates ==
    \A p \in Procs :
        (/\ inv[p].pc # "idle"
         /\ \/ ~((weekday(inv[p].date) < 5) /\ (normalize(inv[p].date) \notin holidays))
            \/ inv[p].date > today
            \/ StepsToToday(p) >= 6)
        => (~inv[p].valid /\ inv[p].pc = "done" /\ inv[p].outcome = Returns(FALSE))

C2_Witness ==
    \E p \in Procs :
        /\ inv[p].pc = "done"
        /\ ~inv[p].valid
        /\ is_business_day(inv[p].date, holidays)
        /\ inv[p].date <= today
        /\ StepsToToday(p) = 6

C4_StoredTableDedupedAndSorted ==
    \A p \in Procs :
        (inv[p].pc = "done" /\ inv[p].outcome = Returns(TRUE))
        => (/\ store.exists
            /\ NoDupRows(store.df.rows)
            /\ AscendingByDate(store.df.rows))

C4_Witness ==
    \E p \in Procs :
        /\ inv[p].pc = "done"
        /\ inv[p].outcome = Returns(TRUE)
        /\ ~AscendingByDate(inv[p].before.df.rows \o inv[p].new_data.rows)
        /\ ~NoDupRows(inv[p].before.df.rows)
        /\ Len(inv[p].new_data.rows) = 2
        /\ Len(store.df.rows) = 3

\* C5: an invocation writes the store exactly once when it returns true and
\* not at all otherwise: on every other path the stored table is the one
\* before the call, and a validation rejection performs no fetch.
C5_WritesOnlyOnSuccess ==
    \A p \in Procs :
        inv[p].pc = "done"
        => (/\ inv[p].outcome = Returns(TRUE) => inv[p].nwrite = 1
            /\ inv[p].outcome # Returns(TRUE)
                 => (inv[p].nwrite = 0 /\ store = inv[p].before)
            /\ ~inv[p].valid => (inv[p].nfetch = 0 /\ inv[p].outcome = Returns(FALSE)))

C5_Witness ==
    \E p \in Procs :
        /\ inv[p].pc = "done"
        /\ inv[p].outcome.kind = "raise"
        /\ inv[p].fetchErr = "none"
        /\ store = inv[p].before

\* C6: when the fetcher raises, scrape_and_update raises the same error and
\* the stored table is the one before the call.
C6_FetchErrorPropagates ==
    \A p \in Procs :
        (inv[p].pc = "done" /\ inv[p].fetchErr # "none")
        => (/\ inv[p].outcome = Raises(inv[p].fetchErr)
            /\ inv[p].nwrite = 0
            /\ store = inv[p].before)

C6_Witness ==
    \E p \in Procs :
        /\ inv[p].pc = "done"
        /\ inv[p].fetchErr = "ParseError"
        /\ inv[p].before.exists
        /\ store = inv[p].before

\* C7: scrape_and_update raises only when the fetcher raises; when the fetcher
\* returns, the invocation ends by returning true or false.
C7_RaisesOnlyWhenFetcherRaises ==
    \A p \in Procs :
        (inv[p].pc = "done" /\ inv[p].outcome.kind = "raise")
        => inv[p].fetchErr # "none"

\* C8: after scrape_and_update returns true the stored rows are the previously
\* stored rows together with the fetched rows, identical rows collapsed to
\* one: nothing is lost, nothing is invented.
C8_MergeIsUnion ==
    \A p \in Procs :
        (inv[p].pc = "done" /\ inv[p].outcome = Returns(TRUE))
        => LET old == {inv[p].before.df.rows[i] : i \in 1..Len(inv[p].before.df.rows)}
               new == {inv[p].new_data.rows[i] : i \in 1..Len(inv[p].new_data.rows)}
           IN  /\ RowSet(store.df.rows) = old \cup new
               /\ Len(store.df.rows) = Cardinality(old \cup new)

C8_Witness ==
    \E p \in Procs :
        /\ inv[p].pc = "done"
        /\ inv[p].outcome = Returns(TRUE)
        /\ Len(inv[p].before.df.rows) = 2
        /\ inv[p].before.df.rows[1].date < inv[p].before.df.rows[2].date
        /\ inv[p].before.df.rows[1].date # NaT
        /\ ~HasDate(inv[p].before.df.rows, inv[p].date)
        /\ Len(inv[p].new_data.rows) = 1
        /\ Len(store.df.rows) = 3

\* C9: previous_business_day(d) is strictly earlier than d, is a business day,
\* and no business day lies strictly between it and the calendar date of d,
\* also when d is a weekend day or a holiday.
C9_PreviousBusinessDay ==
    calOut.op = "prev"
    => (/\ calOut.prev < calA
        /\ calOut.prev % TicksPerDay = 0
        /\ weekday(calOut.prev) < 5
        /\ calOut.prev \notin holidays
        /\ \A t \in Midnights(calOut.prev + 1, (calA - (calA % TicksPerDay)) - 1) :
              ~((weekday(t) < 5) /\ (t \notin holidays)))

C9_Witness ==
    /\ calOut.op = "prev"
    /\ calA \in holidays
    /\ weekday(calA - TicksPerDay) = 6
    /\ (calA - 4 * TicksPerDay) \in holidays
    /\ calOut.prev = calA - 5 * TicksPerDay

\* C10: day_range(a, b) is empty when a > b; otherwise it is strictly
\* increasing, all its elements are business days between a and b, and it
\* contains each of a and b that is a business day (a, b calendar dates).
C10_DayRange ==
    calOut.op = "range"
    => LET a == calA - (calA % TicksPerDay)
           b == calB - (calB % TicksPerDay)
           r == calOut.range
           bd(t) == (weekday(t) < 5) /\ (t \notin holidays)
       IN  /\ a > b => r = <<>>
           /\ \A i \in 1..Len(r) : bd(r[i]) /\ a <= r[i] /\ r[i] <= b
           /\ \A i \in 1..(Len(r) - 1) : r[i] < r[i + 1]
           /\ \A t \in Midnights(a, b) : bd(t) => \E i \in 1..Len(r) : r[i] = t

C10_Witness ==
    /\ calOut.op = "range"
    /\ calA % TicksPerDay = 0
    /\ calB % TicksPerDay = 0
    /\ calA \in holidays
    /\ weekday(calB) = 5
    /\ Len(calOut.range) = 3
    /\ calOut.range[3] - calOut.range[2] = 2 * TicksPerDay

\* C11: day_count(a, b) returns len(day_range(a, b)) - 1 when the range is
\* non-empty and 0 when it is empty; it returns a value, never negative.
C11_DayCountIsStepsOfRange ==
    calOut.op = "count"
    => LET n == Len(generate_range(rollforward(calA - (calA % TicksPerDay), holidays),
                                   calB - (calB % TicksPerDay), holidays))
       IN  /\ calOut.count.err = "none"
           /\ calOut.count.value = (IF n > 0 THEN n - 1 ELSE 0)
           /\ calOut.count.value >= 0

\* C14: is_business_day(d) is true exactly when the calendar date of d is a
\* Monday-Friday that is not in the holiday set, whatever the time of day of d.
C14_IsBusinessDay ==
    calOut.op = "isbd"
    => LET day == calA \div TicksPerDay
       IN  calOut.isbd = ((day % 7 < 5) /\ (day * TicksPerDay \notin holidays))

C14_Witness ==
    /\ calOut.op = "isbd"
    /\ calA % TicksPerDay # 0
    /\ (calA - (calA % TicksPerDay)) \in holidays
    /\ (calA \div TicksPerDay) % 7 < 5
    /\ ~calOut.isbd

\* C13: download_xml makes at most 5 requests and always comes to an end: it
\* returns on the first request that succeeds and makes no further one, it
\* sleeps after each of the first four failures and not after the fifth, and
\* it raises the request error only when all 5 requests have failed.
C13_DownloadRetries ==
    /\ [](\A p \in Procs :
            /\ inv[p].nreq <= 5
            /\ inv[p].pc = "fetch"
                 => (inv[p].nreq < 5 /\ inv[p].nsleep = inv[p].nreq)
            /\ (inv[p].nreq > 0 /\ inv[p].pc # "fetch"
                              /\ inv[p].fetchErr # "RequestException")
                 => inv[p].nsleep = inv[p].nreq - 1
            /\ inv[p].fetchErr = "RequestException"
                 => (/\ inv[p].nreq = 5
                     /\ inv[p].nsleep = 4
                     /\ inv[p].pc = "done"
                     /\ inv[p].outcome.kind = "raise"))
    /\ [][\A p \in Procs :
            /\ (inv[p].pc = "fetch" /\ inv'[p] # inv[p])
                 => (inv'[p].pc # "fetch" \/ inv'[p].nreq = inv[p].nreq + 1)
            /\ (inv[p].pc \in {"merge", "done"} /\ inv'[p].pc # "idle")
                 => inv'[p].nreq = inv[p].nreq]_vars

C13_Witness ==
    \E p \in Procs :
        /\ inv[p].pc = "done"
        /\ inv[p].fetchErr = "RequestException"
        /\ inv[p].nreq = 5
        /\ inv[p].nsleep = 4

\* C15: the steps of one invocation occur in the order validate, load,
\* duplicate check, fetch, write, each at most once; the fetcher is called
\* only after validation passed and the duplicate check did not skip, the
\* store is written only after the fetcher returned, and the fetcher is not
\* called again after it failed.
C15_StepOrder ==
    \A p \in Procs :
        LET t == inv[p].trace
            order == <<"validate", "load", "check", "fetch", "write">>
            old == inv[p].before
        IN  /\ Len(t) <= 5
            /\ \A i \in 1..Len(t) : t[i] = order[i]
            /\ inv[p].nfetch <= 1
            /\ inv[p].nfetch = 1
                 => (/\ inv[p].valid
                     /\ Len(t) >= 4
                     /\ ~(/\ old.exists
                          /\ Len(old.df.rows) > 0
                          /\ "date" \in old.df.columns
                          /\ HasDate(old.df.rows, inv[p].date)))
            /\ (inv[p].nwrite > 0 \/ (inv[p].pc # "idle" /\ store # old))
                 => (/\ inv[p].nwrite = 1
                     /\ inv[p].nfetch = 1
                     /\ inv[p].fetchErr = "none"
                     /\ Len(t) = 5)
            /\ inv[p].fetchErr # "none" => (inv[p].pc = "done" /\ inv[p].nfetch = 1)

C15_Witness ==
    \E p \in Procs :
        /\ inv[p].pc = "done"
        /\ inv[p].trace = <<"validate", "load", "check", "fetch", "write">>
        /\ inv[p].nreq = 3
        /\ store # inv[p].before

\* C17: after scrape_and_update(d) returns true the stored dataset holds a row
\* dated d (so the next scrape_and_update(d) is skipped), whatever records
\* the fetcher returned, none included.
C17_TrueLeavesRowForDate ==
    \A p \in Procs :
        (inv[p].pc = "done" /\ inv[p].outcome = Returns(TRUE))
        => HasDate(store.df.rows, inv[p].date)

\* C19: two concurrent invocations for two different valid dates that both
\* load the table before either writes it both return true, and the final
\* table lacks the rows of one of the two dates.
C19_LostUpdate ==
    (/\ \A p \in Procs :
            /\ inv[p].pc = "done"
            /\ inv[p].outcome = Returns(TRUE)
            /\ Len(inv[p].new_data.rows) > 0
            /\ \A q \in Procs : ~HasDate(inv[p].existing_df.rows, inv[q].date)
     /\ inv[1].date # inv[2].date)
    => (/\ \E p \in Procs : ~HasDate(store.df.rows, inv[p].date)
        /\ \E p \in Procs : HasDate(store.df.rows, inv[p].date))

C19_Witness ==
    /\ \A p \in Procs :
          /\ inv[p].pc = "done"
          /\ inv[p].outcome = Returns(TRUE)
          /\ inv[p].nwrite = 1
          /\ Len(inv[p].new_data.rows) > 0
          /\ inv[p].existing_df = inv[p].before.df
    /\ inv[1].before = inv[2].before
    /\ normalize(inv[1].date) # normalize(inv[2].date)
    /\ ~HasDate(store.df.rows, inv[1].date)
    /\ HasDate(store.df.rows, inv[2].date)

\* C12: constructing the calendar never fails because of the holiday fetch:
\* after a network error or a parsing error of the downloaded content the
\* calendar is built with an empty holiday set.
C12_ConstructionNeverFails ==
    \A i \in 1..Len(ep.cons) :
        ep.cons[i].fetch # "ok" => (ep.cons[i].built /\ ep.cons[i].hol = {})

\* C16: the entry point logs that data was successfully scraped and updated
\* only when scrape_and_update returned true.
C16_SuccessLoggedOnlyOnTrue ==
    "successfully scraped and updated" \in ep.log
    => inv[1].outcome = Returns(TRUE)

\* C18: the date the entry point passes to scrape_and_update, the previous
\* business day of today on its own calendar, is accepted by the manager's
\* _validate_date on the manager's calendar, whatever the two holiday fetches
\* gave.
C18_EntryDateIsAccepted ==
    (ep.pc # "start" /\ inv[1].pc # "idle") => inv[1].valid

====
